---- MODULE Spec2Model ----
(***************************************************************************)
(* The two taxi-demand notebooks.                                          *)
(* Backfill:                                                               *)
(*   fetch_batch_raw_data (window shift, monthly loads, filter, relabel,   *)
(*   sort)  ->  transform_raw_data_into_ts_data  ->  feature_group.insert  *)
(* Predictions:                                                            *)
(*   get_current_utc_hour_ceiled, fetch_predictions,                       *)
(*   fetch_next_hour_predictions and the try/except cell, run against a    *)
(*   clock and a prediction table that change between the calls.           *)
(*                                                                         *)
(* Instants are naive datetimes counted in seconds since                   *)
(* EpochYear-01-01 00:00:00.  A table is a sequence of rows; a row         *)
(* [ts, loc, n] stands for a run of n identical consecutive rows           *)
(* (pickup_datetime = ts, pickup_location_id = loc) of the data frame.     *)
(***************************************************************************)
EXTENDS Integers, Sequences, FiniteSets

VARIABLES
    archive,                \* the raw events the loader can return
    from_date, to_date,     \* the arguments of fetch_batch_raw_data
    pc,                     \* position in the notebook
    error,                  \* the exception raised, "none" if none
    historical_from_date, historical_to_date,
    rides_from, rides_to,   \* the filtered monthly tables
    rides,                  \* the table fetch_batch_raw_data builds / returns
    columns,                \* the names of the columns of rides
    calls,                  \* the loader calls issued so far, in order
    ts_data,                \* result of transform_raw_data_into_ts_data
    feature_group,          \* the tables handed to feature_group.insert
    now,                    \* the UTC clock: whole seconds t, microseconds us
    store,                  \* the prediction table in the feature store
    df,                     \* the global df of the predictions notebook
    current_hour,           \* the global current_hour
    next_hour_predictions,  \* the global next_hour_predictions
    predictions,            \* the global predictions
    returned,               \* what the last call of fetch_predictions returned
    cell,                   \* the cell or call executed last
                            \* ("try_except_caught": the try/except cell, its
                            \* except branch taken), "none" if the clock or
                            \* the store moved since
    raised                  \* the exception that left it, "none" if none

\* the variables of the predictions notebook
predVars == <<now, store, df, current_hour, next_hour_predictions, predictions,
              returned, cell, raised>>

vars == <<archive, from_date, to_date, pc, error, historical_from_date,
          historical_to_date, rides_from, rides_to, rides, columns, calls,
          ts_data, feature_group, predVars>>

\* the variables of the backfill notebook
fetchVars == <<archive, from_date, to_date, pc, error, historical_from_date,
               historical_to_date, rides_from, rides_to, rides, columns, calls,
               ts_data, feature_group>>

\* a name of the kernel not bound yet
UnboundTable == [defined |-> FALSE, rows |-> {}]
UnboundHour == [defined |-> FALSE, t |-> 0]
Unbound == [kind |-> "unbound", rows |-> {}]

\* the predictions notebook not started
PredIdle ==
    /\ now = [t |-> 0, us |-> 0]
    /\ store = {}
    /\ df = UnboundTable
    /\ current_hour = UnboundHour
    /\ next_hour_predictions = UnboundTable
    /\ predictions = Unbound
    /\ returned = {}
    /\ cell = "none"
    /\ raised = "none"

-----------------------------------------------------------------------------
(* Time and calendar (datetime, timedelta)                                 *)

SecondsPerMinute == 60
MinutesPerHour == 60
HoursPerDay == 24
DaysPerWeek == 7
WeeksOffset == 52           \* timedelta(weeks=52)
Years == 2023..2026       \* the calendar years the model's instants lie in
EpochYear == CHOOSE y \in Years : \A z \in Years : y <= z

SecondsPerHour == SecondsPerMinute * MinutesPerHour
SecondsPerDay == SecondsPerHour * HoursPerDay

\* a year of 365 days taken for 52 weeks
TimedeltaWeeks_PlusDay(w) == (w * DaysPerWeek + 1) * SecondsPerDay

\* timedelta(weeks=w) in seconds
TimedeltaWeeks(w) == w * DaysPerWeek * SecondsPerDay

IsLeap(y) == (y % 4 = 0 /\ y % 100 # 0) \/ y % 400 = 0

DaysInYear(y) == IF IsLeap(y) THEN 366 ELSE 365

DaysInMonth(y, m) ==
    IF m = 2 THEN (IF IsLeap(y) THEN 29 ELSE 28)
    ELSE IF m \in {4, 6, 9, 11} THEN 30 ELSE 31

RECURSIVE DaysBeforeYear(_)
DaysBeforeYear(y) ==
    IF y <= EpochYear THEN 0 ELSE DaysBeforeYear(y - 1) + DaysInYear(y - 1)

RECURSIVE DaysBeforeMonth(_, _)
DaysBeforeMonth(y, m) ==
    IF m <= 1 THEN 0 ELSE DaysBeforeMonth(y, m - 1) + DaysInMonth(y, m - 1)

\* the day each year and each month starts on, counted from the epoch
YearStart ==
    [y \in Years \cup {EpochYear + Cardinality(Years)} |-> DaysBeforeYear(y)]

MonthStart ==
    [y \in Years |-> [m \in 1..12 |-> YearStart[y] + DaysBeforeMonth(y, m)]]

\* datetime(y, m, d, hh, mm, ss)
DateTime(y, m, d, hh, mm, ss) ==
    (MonthStart[y][m] + (d - 1)) * SecondsPerDay
        + hh * SecondsPerHour + mm * SecondsPerMinute + ss

\* datetime.year
YearOf(t) ==
    CHOOSE y \in Years :
        /\ YearStart[y] * SecondsPerDay <= t
        /\ t < YearStart[y + 1] * SecondsPerDay

\* datetime.month
MonthOf(t) ==
    LET y == YearOf(t)
        d == t \div SecondsPerDay
    IN  CHOOSE m \in 1..12 :
            /\ MonthStart[y][m] <= d
            /\ d < MonthStart[y][m] + DaysInMonth(y, m)

\* Timestamp.floor('h')
FloorHour(t) == t - (t % SecondsPerHour)

-----------------------------------------------------------------------------
(* Tables                                                                  *)

Row(t, l, k) == [ts |-> t, loc |-> l, n |-> k]

\* the columns of the tables of rides: ts is pickup_datetime, loc is
\* pickup_location_id
RideColumns == {"pickup_datetime", "pickup_location_id"}

\* len(df): the number of data-frame rows a table stands for
RECURSIVE NumRows(_)
NumRows(tbl) ==
    IF tbl = <<>> THEN 0 ELSE Head(tbl).n + NumRows(Tail(tbl))

\* the lower bound taken as exclusive
FilterFrom_Strict(tbl, bound) == SelectSeq(tbl, LAMBDA r : r.ts > bound)

\* df[df.pickup_datetime >= bound]
FilterFrom(tbl, bound) == SelectSeq(tbl, LAMBDA r : r.ts >= bound)

\* df[df.pickup_datetime < bound]
FilterTo(tbl, bound) == SelectSeq(tbl, LAMBDA r : r.ts < bound)

\* the second table put first
Concat_Reversed(a, b) == b \o a

\* pd.concat([a, b], ignore_index=True)
Concat(a, b) == a \o b

\* a calendar year of 365 days added instead of 52 weeks
Relabel_CalendarYear(tbl) ==
    [i \in 1..Len(tbl) |-> [tbl[i] EXCEPT !.ts = @ + 365 * SecondsPerDay]]

\* rides['pickup_datetime'] += timedelta(weeks=52)
Relabel(tbl) ==
    [i \in 1..Len(tbl) |-> [tbl[i] EXCEPT !.ts = @ + TimedeltaWeeks(WeeksOffset)]]

\* the sort keys taken in the other order
KeyLeq_TimeFirst(a, b) == a.ts < b.ts \/ (a.ts = b.ts /\ a.loc <= b.loc)

\* the order of sort_values(by=['pickup_location_id', 'pickup_datetime'])
KeyLeq(a, b) == a.loc < b.loc \/ (a.loc = b.loc /\ a.ts <= b.ts)

RECURSIVE InsertSorted(_, _)
InsertSorted(r, sorted) ==
    IF sorted = <<>> THEN <<r>>
    ELSE IF KeyLeq(Head(sorted), r)
         THEN <<Head(sorted)>> \o InsertSorted(r, Tail(sorted))
         ELSE <<r>> \o sorted

\* rides.sort_values(by=['pickup_location_id', 'pickup_datetime'])
RECURSIVE SortValues(_)
SortValues(tbl) ==
    IF tbl = <<>> THEN <<>>
    ELSE InsertSorted(tbl[Len(tbl)], SortValues(SubSeq(tbl, 1, Len(tbl) - 1)))

\* load_and_process_taxi_data(year=year, months=[month]): every raw event of
\* that calendar month, in the archive's order
LoadAndProcessTaxiData(year, month) ==
    SelectSeq(archive, LAMBDA r : YearOf(r.ts) = year /\ MonthOf(r.ts) = month)

-----------------------------------------------------------------------------
(* transform_raw_data_into_ts_data: the hourly aggregator                  *)

Int16Max == 32767           \* ts_data.info(): rides is an int16 column

\* the value an int16 column holds for the integer k
ToInt16(k) == ((k + Int16Max + 1) % (2 * (Int16Max + 1))) - (Int16Max + 1)

\* the bucket hour rounded to the nearest hour instead of floored
BucketHour_Rounded(r) == FloorHour(r.ts + (SecondsPerHour \div 2))

\* step 1: the hour component of an event's bucket key
BucketHour(r) == FloorHour(r.ts)

RECURSIVE SeqMin(_)
SeqMin(q) ==
    IF Len(q) = 1 THEN q[1]
    ELSE LET m == SeqMin(Tail(q)) IN IF q[1] <= m THEN q[1] ELSE m

RECURSIVE SeqMax(_)
SeqMax(q) ==
    IF Len(q) = 1 THEN q[1]
    ELSE LET m == SeqMax(Tail(q)) IN IF q[1] >= m THEN q[1] ELSE m

\* step 2: min_hour and max_hour of a non-empty table
MinHour(tbl) == SeqMin([i \in 1..Len(tbl) |-> BucketHour(tbl[i])])
MaxHour(tbl) == SeqMax([i \in 1..Len(tbl) |-> BucketHour(tbl[i])])

\* the hour range taken without its last hour
NumHours_Exclusive(tbl) == (MaxHour(tbl) - MinHour(tbl)) \div SecondsPerHour

\* step 4: the number of hours in [min_hour, max_hour], stepped by one hour
NumHours(tbl) == ((MaxHour(tbl) - MinHour(tbl)) \div SecondsPerHour) + 1

RECURSIVE SetToSortedSeq(_)
SetToSortedSeq(S) ==
    IF S = {} THEN <<>>
    ELSE LET m == CHOOSE x \in S : \A y \in S : x <= y
         IN  <<m>> \o SetToSortedSeq(S \ {m})

\* step 3: the distinct location ids of the input, ascending
Locations(tbl) == SetToSortedSeq({tbl[i].loc : i \in 1..Len(tbl)})

\* a bucket marked occupied instead of counted
BucketCount_Presence(tbl, h, l) ==
    IF \E i \in 1..Len(tbl) : FloorHour(tbl[i].ts) = h /\ tbl[i].loc = l
    THEN 1 ELSE 0

\* step 5: the number of events in bucket (h, l)
RECURSIVE BucketCount(_, _, _)
BucketCount(tbl, h, l) ==
    IF tbl = <<>> THEN 0
    ELSE (IF BucketHour(Head(tbl)) = h /\ Head(tbl).loc = l
          THEN Head(tbl).n ELSE 0) + BucketCount(Tail(tbl), h, l)

\* the rows left in (hour, location) order
KeyAt_HourMajor(i, nHours, minHour, locs) ==
    [hour |-> minHour + ((i - 1) \div Len(locs)) * SecondsPerHour,
     loc  |-> locs[((i - 1) % Len(locs)) + 1]]

\* step 7: the key of the i-th row of the output, sorted by (location, hour)
KeyAt(i, nHours, minHour, locs) ==
    [hour |-> minHour + ((i - 1) % nHours) * SecondsPerHour,
     loc  |-> locs[((i - 1) \div nHours) + 1]]

\* an empty table refused as well
TransformRaises_OnEmpty(cols, tbl) ==
    ~(RideColumns \subseteq cols) \/ tbl = <<>>

\* a bucket too large for the int16 column refused as well
TransformRaises_OnOverflow(cols, tbl) ==
    ~(RideColumns \subseteq cols) \/ \E i \in 1..Len(tbl) : tbl[i].n > Int16Max

\* whether the aggregator refuses the table: a required field is missing
TransformRaises(cols, tbl) == ~(RideColumns \subseteq cols)

\* the series updated incrementally: the counts of the run before are kept
\* and the new events added to them
TransformRawDataIntoTsData_Incremental(tbl) ==
    IF tbl = <<>> THEN <<>>
    ELSE LET nHours  == NumHours(tbl)
             minHour == MinHour(tbl)
             locs    == Locations(tbl)
             Before(h, l) ==
                 LET I == { i \in 1..Len(ts_data) :
                              /\ ts_data[i].pickup_hour = h
                              /\ ts_data[i].pickup_location_id = l }
                 IN  IF I = {} THEN 0 ELSE ts_data[CHOOSE i \in I : TRUE].rides
         IN  [i \in 1..(nHours * Len(locs)) |->
                LET k == KeyAt(i, nHours, minHour, locs)
                IN  [pickup_hour        |-> k.hour,
                     pickup_location_id |-> k.loc,
                     rides |-> ToInt16(BucketCount(tbl, k.hour, k.loc)
                                          + Before(k.hour, k.loc))]]

\* steps 4, 6: one row per cell of hours x locations, zero where no event fell
TransformRawDataIntoTsData(tbl) ==
    IF tbl = <<>> THEN <<>>
    ELSE LET nHours  == NumHours(tbl)
             minHour == MinHour(tbl)
             locs    == Locations(tbl)
         IN  [i \in 1..(nHours * Len(locs)) |->
                LET k == KeyAt(i, nHours, minHour, locs)
                IN  [pickup_hour        |-> k.hour,
                     pickup_location_id |-> k.loc,
                     rides |-> ToInt16(BucketCount(tbl, k.hour, k.loc))]]

-----------------------------------------------------------------------------
(* Arguments of fetch_batch_raw_data: a datetime, a string or anything else *)

\* a datetime object (pd.Timestamp is one)
Dt(t) == [kind |-> "datetime", t |-> t, text |-> <<>>]

\* a string; text holds the fields <<year, month, day, hour, minute, second>>
\* it spells, or fewer when it does not spell a date at all
Str(fields) == [kind |-> "str", t |-> 0, text |-> fields]

\* a value that is neither a string nor a datetime (None, an int, ...)
Other == [kind |-> "other", t |-> 0, text |-> <<>>]

\* whether datetime.fromisoformat accepts the string
IsIsoFormat(text) ==
    /\ Len(text) = 6
    /\ text[1] \in Years
    /\ text[2] \in 1..12
    /\ text[3] \in 1..DaysInMonth(text[1], text[2])
    /\ text[4] \in 0..(HoursPerDay - 1)
    /\ text[5] \in 0..(MinutesPerHour - 1)
    /\ text[6] \in 0..(SecondsPerMinute - 1)

\* datetime.fromisoformat(text), for a string it accepts
FromIsoFormat(text) ==
    DateTime(text[1], text[2], text[3], text[4], text[5], text[6])

\* lines 133-136: the argument after the conversion of strings
Converted(arg) ==
    IF arg.kind = "str" THEN Dt(FromIsoFormat(arg.text)) ELSE arg

\* the ordering check letting equal bounds through
Raises_EqualAllowed(f, t) ==
    \/ f.kind = "str" /\ ~IsIsoFormat(f.text)
    \/ t.kind = "str" /\ ~IsIsoFormat(t.text)
    \/ Converted(f).kind # "datetime"
    \/ Converted(t).kind # "datetime"
    \/ Converted(f).t > Converted(t).t

\* whether fetch_batch_raw_data raises ValueError on these arguments
Raises(f, t) ==
    \/ f.kind = "str" /\ ~IsIsoFormat(f.text)
    \/ t.kind = "str" /\ ~IsIsoFormat(t.text)
    \/ Converted(f).kind # "datetime"
    \/ Converted(t).kind # "datetime"
    \/ Converted(f).t >= Converted(t).t

\* the isinstance check of lines 139-140 left out: the comparison of line 141
\* raises TypeError on a value that is no datetime
RaisedError_NoTypeCheck(f, t) ==
    IF f.kind = "str" /\ ~IsIsoFormat(f.text) THEN "ValueError"
    ELSE IF t.kind = "str" /\ ~IsIsoFormat(t.text) THEN "ValueError"
    ELSE IF Converted(f).kind # "datetime" \/ Converted(t).kind # "datetime"
         THEN "TypeError"
    ELSE "ValueError"

\* the exception fetch_batch_raw_data raises when it raises: ValueError from
\* datetime.fromisoformat (lines 134, 136), from line 140 or from line 142
RaisedError(f, t) ==
    IF f.kind = "str" /\ ~IsIsoFormat(f.text) THEN "ValueError"
    ELSE IF t.kind = "str" /\ ~IsIsoFormat(t.text) THEN "ValueError"
    ELSE IF Converted(f).kind # "datetime" \/ Converted(t).kind # "datetime"
         THEN "ValueError"
    ELSE "ValueError"

-----------------------------------------------------------------------------
(* The inputs the model draws from                                         *)

MaxArchiveRows == 2         \* rows of the archive
MaxEvents == 3              \* rows of a table handed to the aggregator directly
MaxWeeks == 53              \* offsets a caller may want, in weeks
MaxRunEvents == 2           \* rows of a table aggregated more than once
MaxRuns == 2                \* runs of the aggregation over the same events

\* the calls fetch_batch_raw_data(from_date, to_date) the model makes
Requests ==
    { \* the notebook's own window: the last 28 days
      <<Dt(DateTime(2025, 2, 4, 6, 0, 0)), Dt(DateTime(2025, 3, 4, 6, 0, 0))>>,
      \* two months, given as strings
      <<Str(<<2025, 3, 4, 0, 0, 0>>), Str(<<2025, 4, 1, 0, 0, 0>>)>>,
      \* within one month
      <<Dt(DateTime(2025, 3, 4, 0, 0, 0)), Dt(DateTime(2025, 3, 20, 0, 0, 0))>>,
      \* December to January
      <<Dt(DateTime(2025, 12, 20, 0, 0, 0)), Dt(DateTime(2026, 1, 10, 0, 0, 0))>>,
      \* the same month of two different years
      <<Dt(DateTime(2025, 3, 4, 0, 0, 0)), Dt(DateTime(2026, 3, 10, 0, 0, 0))>>,
      \* three months
      <<Dt(DateTime(2025, 2, 4, 6, 0, 0)), Str(<<2025, 4, 1, 0, 0, 0>>)>>,
      \* reversed and equal bounds
      <<Str(<<2025, 2, 1, 0, 0, 0>>), Str(<<2025, 1, 1, 0, 0, 0>>)>>,
      <<Dt(DateTime(2025, 3, 4, 0, 0, 0)), Str(<<2025, 3, 4, 0, 0, 0>>)>>,
      \* not a date, not a string
      <<Str(<<2025, 2, 30, 0, 0, 0>>), Dt(DateTime(2025, 3, 4, 0, 0, 0))>>,
      <<Dt(DateTime(2025, 2, 4, 6, 0, 0)), Str(<<>>)>>,
      <<Other, Dt(DateTime(2025, 3, 4, 0, 0, 0))>>,
      <<Dt(DateTime(2025, 3, 4, 0, 0, 0)), Other>> }

\* pickup instants of the archive, on and around the bounds of the windows
ArchiveInstants ==
    { DateTime(2024, 2, 6, 5, 59, 59),  DateTime(2024, 2, 6, 6, 8, 40),
      DateTime(2024, 3, 5, 0, 0, 0),    DateTime(2024, 3, 5, 6, 0, 0),
      DateTime(2024, 3, 21, 0, 0, 0),   DateTime(2024, 4, 2, 0, 0, 0),
      DateTime(2024, 12, 21, 0, 0, 0),  DateTime(2025, 1, 10, 23, 59, 59) }

LocationIds == {3, 5}

ArchiveRows == { Row(t, l, 1) : t \in ArchiveInstants, l \in LocationIds }

SeqsUpTo(S, k) == UNION { [1..m -> S] : m \in 0..k }

\* pickup instants of the tables handed to the aggregator directly
EventInstants ==
    { DateTime(2025, 2, 4, 6, 0, 0),  DateTime(2025, 2, 4, 6, 8, 40),
      DateTime(2025, 2, 4, 6, 47, 0), DateTime(2025, 2, 4, 7, 15, 0),
      DateTime(2025, 2, 4, 8, 47, 22) }

\* run lengths: a single event, and one more than an int16 can count
RunLengths == {1, Int16Max + 1}

EventRows ==
    { Row(t, l, k) : t \in EventInstants, l \in LocationIds, k \in RunLengths }

\* the rows a table with the columns cols can hold
EventRowsWith(cols) ==
    IF cols = RideColumns THEN EventRows
    ELSE IF cols = {"pickup_datetime"}
         THEN { [ts |-> t, n |-> 1] : t \in EventInstants }
    ELSE IF cols = {"pickup_location_id"}
         THEN { [loc |-> l, n |-> 1] : l \in LocationIds }
    ELSE { [n |-> 1] }

-----------------------------------------------------------------------------
(* The backfill notebook                                                   *)

Init ==
    /\ archive \in SeqsUpTo(ArchiveRows, MaxArchiveRows)
    /\ \E q \in Requests : from_date = q[1] /\ to_date = q[2]
    /\ pc = "start"
    /\ error = "none"
    /\ historical_from_date = 0
    /\ historical_to_date = 0
    /\ rides_from = <<>>
    /\ rides_to = <<>>
    /\ rides = <<>>
    /\ columns = RideColumns
    /\ calls = <<>>
    /\ ts_data = <<>>
    /\ feature_group = <<>>
    /\ PredIdle

\* the validation error caught inside the function, which then goes on to
\* the loader calls
Validate_CaughtLocally ==
    /\ pc = "start"
    /\ IF Raises(from_date, to_date)
       THEN /\ error' = RaisedError(from_date, to_date)
            /\ historical_from_date' = 0
            /\ historical_to_date' = 0
       ELSE /\ historical_from_date' =
                    Converted(from_date).t - TimedeltaWeeks(WeeksOffset)
            /\ historical_to_date' =
                    Converted(to_date).t - TimedeltaWeeks(WeeksOffset)
            /\ UNCHANGED error
    /\ pc' = "load_from"
    /\ UNCHANGED <<columns, archive, from_date, to_date, rides_from, rides_to,
                   rides, calls, ts_data, feature_group>>
    /\ UNCHANGED predVars

\* lines 132-146: convert, validate, shift back by 52 weeks
Validate ==
    /\ pc = "start"
    /\ IF Raises(from_date, to_date)
       THEN /\ error' = RaisedError(from_date, to_date)
            /\ pc' = "raised"
            /\ UNCHANGED <<historical_from_date, historical_to_date>>
       ELSE /\ historical_from_date' =
                    Converted(from_date).t - TimedeltaWeeks(WeeksOffset)
            /\ historical_to_date' =
                    Converted(to_date).t - TimedeltaWeeks(WeeksOffset)
            /\ pc' = "load_from"
            /\ UNCHANGED error
    /\ UNCHANGED <<columns, archive, from_date, to_date, rides_from, rides_to,
                   rides,
                   calls, ts_data, feature_group>>
    /\ UNCHANGED predVars

\* lines 149-150: load the month of historical_from_date, keep >= historical_from
LoadFrom ==
    /\ pc = "load_from"
    /\ calls' = Append(calls, <<YearOf(historical_from_date),
                                MonthOf(historical_from_date)>>)
    /\ rides_from' =
          FilterFrom(LoadAndProcessTaxiData(YearOf(historical_from_date),
                                            MonthOf(historical_from_date)),
                     historical_from_date)
    /\ pc' = "branch"
    /\ UNCHANGED <<columns, archive, from_date, to_date, error,
                   historical_from_date,
                   historical_to_date, rides_to, rides, ts_data, feature_group>>
    /\ UNCHANGED predVars

\* line 149: the loader raises; the exception leaves fetch_batch_raw_data
LoadFromFails ==
    /\ pc = "load_from"
    /\ calls' = Append(calls, <<YearOf(historical_from_date),
                                MonthOf(historical_from_date)>>)
    /\ error' = "LoaderError"
    /\ pc' = "raised"
    /\ UNCHANGED <<columns, archive, from_date, to_date, historical_from_date,
                   historical_to_date, rides_from, rides_to, rides, ts_data,
                   feature_group>>
    /\ UNCHANGED predVars

\* lines 152-156: the month numbers differ: load the month of
\* historical_to_date, keep < historical_to, concatenate
LoadTo ==
    /\ pc = "branch"
    /\ MonthOf(historical_to_date) # MonthOf(historical_from_date)
    /\ calls' = Append(calls, <<YearOf(historical_to_date),
                                MonthOf(historical_to_date)>>)
    /\ rides_to' =
          FilterTo(LoadAndProcessTaxiData(YearOf(historical_to_date),
                                          MonthOf(historical_to_date)),
                   historical_to_date)
    /\ rides' = Concat(rides_from, rides_to')
    /\ pc' = "relabel"
    /\ UNCHANGED <<columns, archive, from_date, to_date, error,
                   historical_from_date,
                   historical_to_date, rides_from, ts_data, feature_group>>
    /\ UNCHANGED predVars

\* line 153: the loader raises; the exception leaves fetch_batch_raw_data
LoadToFails ==
    /\ pc = "branch"
    /\ MonthOf(historical_to_date) # MonthOf(historical_from_date)
    /\ calls' = Append(calls, <<YearOf(historical_to_date),
                                MonthOf(historical_to_date)>>)
    /\ error' = "LoaderError"
    /\ pc' = "raised"
    /\ UNCHANGED <<columns, archive, from_date, to_date, historical_from_date,
                   historical_to_date, rides_from, rides_to, rides, ts_data,
                   feature_group>>
    /\ UNCHANGED predVars

\* lines 157-158: the month numbers are equal: rides = rides_from
SingleMonth ==
    /\ pc = "branch"
    /\ MonthOf(historical_to_date) = MonthOf(historical_from_date)
    /\ rides' = rides_from
    /\ pc' = "relabel"
    /\ UNCHANGED <<columns, archive, from_date, to_date, error,
                   historical_from_date,
                   historical_to_date, rides_from, rides_to, calls, ts_data,
                   feature_group>>
    /\ UNCHANGED predVars

\* whether rides and rides_from are one object (line 158: rides = rides_from)
Aliased == Len(calls) = 1

\* line 160: shift the data forward by 52 weeks, in place
RelabelRides ==
    /\ pc = "relabel"
    /\ rides' = Relabel(rides)
    /\ rides_from' = IF Aliased THEN rides' ELSE rides_from
    /\ pc' = "sort"
    /\ UNCHANGED <<columns, archive, from_date, to_date, error,
                   historical_from_date, historical_to_date, rides_to, calls,
                   ts_data, feature_group>>
    /\ UNCHANGED predVars

\* lines 163-165: sort in place and return
SortRides ==
    /\ pc = "sort"
    /\ rides' = SortValues(rides)
    /\ rides_from' = IF Aliased THEN rides' ELSE rides_from
    /\ pc' = "fetched"
    /\ UNCHANGED <<columns, archive, from_date, to_date, error,
                   historical_from_date, historical_to_date, rides_to, calls,
                   ts_data, feature_group>>
    /\ UNCHANGED predVars

\* ts_data = transform_raw_data_into_ts_data(rides)
Transform ==
    /\ pc = "fetched"
    /\ IF TransformRaises(columns, rides)
       THEN /\ error' = "ValueError"
            /\ pc' = "raised"
            /\ UNCHANGED ts_data
       ELSE /\ ts_data' = TransformRawDataIntoTsData(rides)
            /\ pc' = "transformed"
            /\ UNCHANGED error
    /\ UNCHANGED <<columns, archive, from_date, to_date, historical_from_date,
                   historical_to_date, rides_from, rides_to, rides, calls,
                   feature_group>>
    /\ UNCHANGED predVars

\* the write issued although a step before it raised
FeatureGroupInsert_AfterFailure ==
    /\ pc \in {"transformed", "raised"}
    /\ feature_group' = Append(feature_group, ts_data)
    /\ pc' = "done"
    /\ UNCHANGED <<columns, archive, from_date, to_date, error,
                   historical_from_date, historical_to_date, rides_from,
                   rides_to, rides, calls, ts_data>>
    /\ UNCHANGED predVars

\* feature_group.insert(ts_data, ...)
FeatureGroupInsert ==
    /\ pc = "transformed"
    /\ feature_group' = Append(feature_group, ts_data)
    /\ pc' = "done"
    /\ UNCHANGED <<columns, archive, from_date, to_date, error,
                   historical_from_date,
                   historical_to_date, rides_from, rides_to, rides, calls,
                   ts_data>>
    /\ UNCHANGED predVars

Next ==
    \/ Validate
    \/ LoadFrom
    \/ LoadFromFails
    \/ LoadTo
    \/ LoadToFails
    \/ SingleMonth
    \/ RelabelRides
    \/ SortRides
    \/ Transform
    \/ FeatureGroupInsert

Spec == Init /\ [][Next]_vars

-----------------------------------------------------------------------------
(* The aggregator on its own: any table of events                          *)

InitAgg ==
    /\ columns \in SUBSET RideColumns
    /\ rides \in SeqsUpTo(EventRowsWith(columns), MaxEvents)
    /\ archive = <<>>
    /\ from_date = Other
    /\ to_date = Other
    /\ pc = "fetched"
    /\ error = "none"
    /\ historical_from_date = 0
    /\ historical_to_date = 0
    /\ rides_from = <<>>
    /\ rides_to = <<>>
    /\ calls = <<>>
    /\ ts_data = <<>>
    /\ feature_group = <<>>
    /\ PredIdle

NextAgg == Transform

SpecAgg == InitAgg /\ [][NextAgg]_vars

-----------------------------------------------------------------------------
(* The backfill notebook on its own window: the 28 days before the current *)
(* hour, for clock readings at the start, the middle and the end of every  *)
(* day of two years                                                        *)

DaysOfHistory == 28         \* fetch_data_from = current_date - timedelta(days=28)

\* current_date = pd.to_datetime(datetime.utcnow()).floor('h')
CurrentDate(clock) == FloorHour(clock.t)

\* fetch_data_to = current_date
FetchDataTo(current_date) == current_date

\* the window of a whole month of 31 days
FetchDataFrom_31Days(current_date) == current_date - 31 * SecondsPerDay

\* fetch_data_from = current_date - timedelta(days=28)
FetchDataFrom(current_date) == current_date - DaysOfHistory * SecondsPerDay

\* the clock readings: 00:20:15.5, 11:20:15.5 and 23:20:15.5 of every day
NotebookClock ==
    UNION { { [t |-> DateTime(y, m, d, hh, 20, 15), us |-> 500000] :
                d \in 1..DaysInMonth(y, m), hh \in {0, 11, 23} } :
            y \in {2025, 2026}, m \in 1..12 }

InitNotebook ==
    /\ now \in NotebookClock
    /\ to_date = Dt(FetchDataTo(CurrentDate(now)))
    /\ from_date = Dt(FetchDataFrom(CurrentDate(now)))
    /\ archive = <<>>
    /\ pc = "start"
    /\ error = "none"
    /\ historical_from_date = 0
    /\ historical_to_date = 0
    /\ rides_from = <<>>
    /\ rides_to = <<>>
    /\ rides = <<>>
    /\ columns = RideColumns
    /\ calls = <<>>
    /\ ts_data = <<>>
    /\ feature_group = <<>>
    /\ store = {}
    /\ df = UnboundTable
    /\ current_hour = UnboundHour
    /\ next_hour_predictions = UnboundTable
    /\ predictions = Unbound
    /\ returned = {}
    /\ cell = "none"
    /\ raised = "none"

SpecWindow == InitNotebook /\ [][Next]_vars

-----------------------------------------------------------------------------
(* The aggregation run again over the same events                          *)

InitRuns ==
    /\ columns = RideColumns
    /\ rides \in SeqsUpTo(EventRows, MaxRunEvents)
    /\ archive = <<>>
    /\ from_date = Other
    /\ to_date = Other
    /\ pc = "fetched"
    /\ error = "none"
    /\ historical_from_date = 0
    /\ historical_to_date = 0
    /\ rides_from = <<>>
    /\ rides_to = <<>>
    /\ calls = <<>>
    /\ ts_data = <<>>
    /\ feature_group = <<>>
    /\ PredIdle

\* the table q with its rows i and i + 1 exchanged; q itself for i = 0
Swap(q, i) ==
    IF i = 0 THEN q
    ELSE [j \in 1..Len(q) |->
            IF j = i THEN q[i + 1] ELSE IF j = i + 1 THEN q[i] ELSE q[j]]

\* the notebook run once more: the same events, their rows in the same or
\* in another order, while ts_data and feature_group still hold what the
\* runs before left
Rerun ==
    /\ pc = "done"
    /\ Len(feature_group) < MaxRuns
    /\ \E i \in 0..(Len(rides) - 1) :
          /\ IF i = 0 THEN TRUE ELSE rides[i] # rides[i + 1]
          /\ rides' = Swap(rides, i)
    /\ pc' = "fetched"
    /\ UNCHANGED <<columns, archive, from_date, to_date, error,
                   historical_from_date, historical_to_date, rides_from,
                   rides_to, calls, ts_data, feature_group>>
    /\ UNCHANGED predVars

NextRuns ==
    \/ Transform
    \/ FeatureGroupInsert
    \/ Rerun

SpecRuns == InitRuns /\ [][NextRuns]_vars

-----------------------------------------------------------------------------
(* The predictions notebook.  Its cells and functions are executed in any  *)
(* order and any number of times in one kernel; between two of them the    *)
(* clock may advance and the inference pipeline may write predictions.     *)

\* get_current_utc_hour_ceiled (lines 60-69): an hour is added when the
\* minute or the second of the clock is not zero, then minute, second and
\* microsecond are reset
GetCurrentUtcHourCeiled(current) ==
    LET minute == (current.t % SecondsPerHour) \div SecondsPerMinute
        second == current.t % SecondsPerMinute
        moved  == IF minute > 0 \/ second > 0
                  THEN [t |-> current.t + SecondsPerHour, us |-> current.us]
                  ELSE current
    IN  FloorHour(moved.t)

\* next_hour = (now + timedelta(hours=1)).replace(minute=0, second=0,
\*                                               microsecond=0)
NextHour(clock) == FloorHour(clock.t + SecondsPerHour)

\* pd.Timestamp.now(tz='Etc/UTC').ceil('h')
CeilHour(clock) ==
    IF clock.t % SecondsPerHour = 0 /\ clock.us = 0 THEN clock.t
    ELSE FloorHour(clock.t) + SecondsPerHour

\* a row of the prediction feature group
PredictionRow(h, l, d) ==
    [pickup_location_id |-> l, predicted_demand |-> d, pickup_hour |-> h]

\* the rows of a table with the given pickup_hour
RowsAtHour(tbl, h) == { r \in tbl : r.pickup_hour = h }

\* the rows the inference pipeline may write
PredictionRows ==
    { PredictionRow(DateTime(2025, 3, 4, 16, 0, 0), 3, 2),
      PredictionRow(DateTime(2025, 3, 4, 16, 0, 0), 5, 0),
      PredictionRow(DateTime(2025, 3, 4, 17, 0, 0), 3, 1) }

\* the clock readings: on an hour, half a second past it, inside the hour,
\* on the next hour, inside the next hour
Clock ==
    { [t |-> DateTime(2025, 3, 4, 15, 0, 0), us |-> 0],
      [t |-> DateTime(2025, 3, 4, 15, 0, 0), us |-> 500000],
      [t |-> DateTime(2025, 3, 4, 15, 20, 15), us |-> 500000],
      [t |-> DateTime(2025, 3, 4, 16, 0, 0), us |-> 0],
      [t |-> DateTime(2025, 3, 4, 16, 20, 15), us |-> 0] }

Later(a, b) == a.t > b.t \/ (a.t = b.t /\ a.us > b.us)

InitPred ==
    /\ now \in Clock
    /\ store \in SUBSET PredictionRows
    /\ df = UnboundTable
    /\ current_hour = UnboundHour
    /\ next_hour_predictions = UnboundTable
    /\ predictions = Unbound
    /\ returned = {}
    /\ cell = "none"
    /\ raised = "none"
    /\ archive = <<>>
    /\ from_date = Other
    /\ to_date = Other
    /\ pc = "start"
    /\ error = "none"
    /\ historical_from_date = 0
    /\ historical_to_date = 0
    /\ rides_from = <<>>
    /\ rides_to = <<>>
    /\ rides = <<>>
    /\ columns = RideColumns
    /\ calls = <<>>
    /\ ts_data = <<>>
    /\ feature_group = <<>>

\* time passes
Tick ==
    /\ \E c \in Clock : Later(c, now) /\ now' = c
    /\ cell' = "none"
    /\ raised' = "none"
    /\ UNCHANGED <<store, df, current_hour, next_hour_predictions,
                   predictions, returned>>
    /\ UNCHANGED fetchVars

\* the inference pipeline writes a prediction to the feature group
StoreWrite ==
    /\ \E r \in PredictionRows \ store : store' = store \cup {r}
    /\ cell' = "none"
    /\ raised' = "none"
    /\ UNCHANGED <<now, df, current_hour, next_hour_predictions, predictions,
                   returned>>
    /\ UNCHANGED fetchVars

\* line 72: current_hour = get_current_utc_hour_ceiled()
SetCurrentHour ==
    /\ current_hour' = [defined |-> TRUE, t |-> GetCurrentUtcHourCeiled(now)]
    /\ cell' = "current_hour"
    /\ raised' = "none"
    /\ UNCHANGED <<now, store, df, next_hour_predictions, predictions,
                   returned>>
    /\ UNCHANGED fetchVars

\* lines 119-143, 961-981: df = query.read(), df = fg.read(); the connection
\* or the read may fail
ReadDf ==
    /\ \E ok \in BOOLEAN :
          IF ok THEN /\ df' = [defined |-> TRUE, rows |-> store]
                     /\ raised' = "none"
          ELSE /\ raised' = "ConnectionError"
               /\ UNCHANGED df
    /\ cell' = "df"
    /\ UNCHANGED <<now, store, current_hour, next_hour_predictions,
                   predictions, returned>>
    /\ UNCHANGED fetchVars

\* lines 83-95: a call of fetch_predictions(); the filter of line 93 names
\* the global current_hour
FetchPredictions ==
    /\ \E ok \in BOOLEAN :
          IF ~ok THEN /\ raised' = "ConnectionError"
                      /\ UNCHANGED returned
          ELSE IF ~current_hour.defined
               THEN /\ raised' = "NameError"
                    /\ UNCHANGED returned
          ELSE /\ returned' = RowsAtHour(store, current_hour.t)
               /\ raised' = "none"
    /\ cell' = "fetch_predictions"
    /\ UNCHANGED <<now, store, df, current_hour, next_hour_predictions,
                   predictions>>
    /\ UNCHANGED fetchVars

\* lines 890-904, 937: predictions = fetch_next_hour_predictions(); the
\* function connects to the feature store and filters the global df
FetchNextHourPredictions ==
    /\ \E ok \in BOOLEAN :
          IF ~ok THEN /\ raised' = "ConnectionError"
                      /\ UNCHANGED predictions
          ELSE IF ~df.defined
               THEN /\ raised' = "NameError"
                    /\ UNCHANGED predictions
          ELSE /\ predictions' =
                     [kind |-> "table",
                      rows |-> RowsAtHour(df.rows, NextHour(now))]
               /\ raised' = "none"
    /\ cell' = "fetch_next_hour_predictions"
    /\ UNCHANGED <<now, store, df, current_hour, next_hour_predictions,
                   returned>>
    /\ UNCHANGED fetchVars

\* lines 341-387: the try/except cell.  On success next_hour_predictions is
\* bound to the filtered read; an exception is caught and printed; the last
\* line binds predictions to next_hour_predictions if that name is bound in
\* the kernel, to None otherwise
TryExceptCell ==
    /\ \E ok \in BOOLEAN :
          IF ok THEN /\ next_hour_predictions' =
                           [defined |-> TRUE,
                            rows |-> RowsAtHour(store, NextHour(now))]
                     /\ cell' = "try_except"
          ELSE /\ UNCHANGED next_hour_predictions
               /\ cell' = "try_except_caught"
    /\ predictions' =
          IF next_hour_predictions'.defined
          THEN [kind |-> "table", rows |-> next_hour_predictions'.rows]
          ELSE [kind |-> "None", rows |-> {}]
    /\ raised' = "none"
    /\ UNCHANGED <<now, store, df, current_hour, returned>>
    /\ UNCHANGED fetchVars

NextPred ==
    \/ Tick
    \/ StoreWrite
    \/ SetCurrentHour
    \/ ReadDf
    \/ FetchPredictions
    \/ FetchNextHourPredictions
    \/ TryExceptCell

SpecPred == InitPred /\ [][NextPred]_vars

-----------------------------------------------------------------------------
(* Properties of the aggregated series (checked under SpecAgg)             *)

\* the instants of the events of a table
Instants(tbl) == {tbl[i].ts : i \in 1..Len(tbl)}

EarliestInstant(tbl) == CHOOSE t \in Instants(tbl) : \A u \in Instants(tbl) : t <= u
LatestInstant(tbl) == CHOOSE t \in Instants(tbl) : \A u \in Instants(tbl) : u <= t

\* every whole hour from the one holding the earliest event to the one holding
\* the latest event
HoursInRange(tbl) ==
    { k * SecondsPerHour :
        k \in (EarliestInstant(tbl) \div SecondsPerHour)
                ..(LatestInstant(tbl) \div SecondsPerHour) }

LocationsOf(tbl) == {tbl[i].loc : i \in 1..Len(tbl)}

\* the rows of a table that fall in the hour starting at h, at location l
RowsInBucket(tbl, h, l) ==
    { i \in 1..Len(tbl) :
        /\ h <= tbl[i].ts
        /\ tbl[i].ts < h + SecondsPerHour
        /\ tbl[i].loc = l }

RECURSIVE SumRuns(_, _)
SumRuns(tbl, I) ==
    IF I = {} THEN 0
    ELSE LET i == CHOOSE j \in I : TRUE
         IN  tbl[i].n + SumRuns(tbl, I \ {i})

\* the number of events of a table in the hour starting at h, at location l
EventsInBucket(tbl, h, l) == SumRuns(tbl, RowsInBucket(tbl, h, l))

RECURSIVE SumRides(_)
SumRides(series) ==
    IF series = <<>> THEN 0 ELSE Head(series).rides + SumRides(Tail(series))

Transformed == pc = "transformed" /\ rides # <<>>

\* C1: for a non-empty input the series has exactly one row for every
\* (hour, location) of hours-in-range x locations-of-the-input and no other
\* row; the row's count is the number of input events in that bucket, 0 when
\* the bucket is empty.
C1_DenseGridExactCounts ==
    Transformed =>
        /\ \A h \in HoursInRange(rides), l \in LocationsOf(rides) :
              \E i \in 1..Len(ts_data) :
                 /\ ts_data[i].pickup_hour = h
                 /\ ts_data[i].pickup_location_id = l
                 /\ ts_data[i].rides = EventsInBucket(rides, h, l)
                 /\ \A j \in 1..Len(ts_data) :
                       (ts_data[j].pickup_hour = h
                          /\ ts_data[j].pickup_location_id = l) => j = i
        /\ \A i \in 1..Len(ts_data) :
              /\ ts_data[i].pickup_hour \in HoursInRange(rides)
              /\ ts_data[i].pickup_location_id \in LocationsOf(rides)

\* C2: for a non-empty input the number of rows of the series is
\* (hours in [min_hour, max_hour]) x (distinct locations of the input).
C2_RowCountIsHoursTimesLocations ==
    Transformed =>
        Len(ts_data) =
            Cardinality(HoursInRange(rides)) * Cardinality(LocationsOf(rides))

\* a sparse input: two events, three hours apart, at two locations
C2_Witness ==
    /\ Transformed
    /\ Len(rides) = 2
    /\ Cardinality(HoursInRange(rides)) = 3
    /\ Cardinality(LocationsOf(rides)) = 2
    /\ Len(ts_data) = 6

\* C3: the counts of the series add up to the number of input events.
C3_CountsSumToEvents ==
    pc = "transformed" => SumRides(ts_data) = NumRows(rides)

\* C4: the rows of the series are strictly ascending in (location, hour), so
\* no (hour, location) key occurs twice.
C4_StrictlyAscendingByLocationHour ==
    pc = "transformed" =>
        \A i \in 1..(Len(ts_data) - 1) :
            \/ ts_data[i].pickup_location_id < ts_data[i + 1].pickup_location_id
            \/ /\ ts_data[i].pickup_location_id = ts_data[i + 1].pickup_location_id
               /\ ts_data[i].pickup_hour < ts_data[i + 1].pickup_hour

\* a series of several hours at two locations
C4_Witness ==
    /\ Transformed
    /\ Cardinality(LocationsOf(rides)) = 2
    /\ Cardinality(HoursInRange(rides)) >= 2
    /\ Len(ts_data) >= 4

\* C5: every event lies in the hour of the row that counts it, at or after the
\* hour's start and less than one hour after it; a row with a non-zero count
\* has such an event; the first and last hours of the series are the hours
\* holding the earliest and the latest event.
C5_BucketIsFloorOfTimestamp ==
    Transformed =>
        /\ \A e \in 1..Len(rides) :
              \E i \in 1..Len(ts_data) :
                 /\ ts_data[i].pickup_location_id = rides[e].loc
                 /\ ts_data[i].pickup_hour % SecondsPerHour = 0
                 /\ ts_data[i].pickup_hour <= rides[e].ts
                 /\ rides[e].ts < ts_data[i].pickup_hour + SecondsPerHour
        /\ \A i \in 1..Len(ts_data) :
              ts_data[i].rides # 0 =>
                 RowsInBucket(rides, ts_data[i].pickup_hour,
                              ts_data[i].pickup_location_id) # {}
        /\ \A i \in 1..Len(ts_data) :
              /\ ts_data[i].pickup_hour > EarliestInstant(rides) - SecondsPerHour
              /\ ts_data[i].pickup_hour <= LatestInstant(rides)
        /\ \E i, j \in 1..Len(ts_data) :
              /\ ts_data[i].pickup_hour <= EarliestInstant(rides)
              /\ LatestInstant(rides) < ts_data[j].pickup_hour + SecondsPerHour

\* events at 06:08:40 and 08:47:22 are counted in the hours 06:00 and 08:00
C5_Witness ==
    /\ Transformed
    /\ Instants(rides) = {DateTime(2025, 2, 4, 6, 8, 40),
                          DateTime(2025, 2, 4, 8, 47, 22)}
    /\ ts_data[1].pickup_hour = DateTime(2025, 2, 4, 6, 0, 0)
    /\ ts_data[1].rides > 0
    /\ ts_data[Len(ts_data)].pickup_hour = DateTime(2025, 2, 4, 8, 0, 0)
    /\ ts_data[Len(ts_data)].rides > 0

-----------------------------------------------------------------------------
(* Properties of fetch_batch_raw_data (checked under Spec)                 *)

\* the (year, month) pair an instant falls in
YearMonth(t) == <<YearOf(t), MonthOf(t)>>

\* an argument that is a datetime or spells one
IsDate(arg) ==
    arg.kind = "datetime" \/ (arg.kind = "str" /\ IsIsoFormat(arg.text))

\* the instant of such an argument
InstantOf(arg) ==
    IF arg.kind = "datetime" THEN arg.t
    ELSE DateTime(arg.text[1], arg.text[2], arg.text[3],
                  arg.text[4], arg.text[5], arg.text[6])

\* the positions after the loads and the branch of lines 152-158
Combined == pc \in {"relabel", "sort", "fetched", "transformed", "done"}

\* the positions after the validation and the shift succeeded
Shifted == pc \notin {"start", "raised"}

RowsOf(tbl) == {tbl[i] : i \in 1..Len(tbl)}

Occurrences(tbl, r) == Cardinality({i \in 1..Len(tbl) : tbl[i] = r})

\* C6: when both historical bounds fall in one month of one year, every row
\* kept lies in [historical_from, historical_to), and no returned event lies at
\* or after to_date.
C6_SingleMonthBothBounds ==
    YearMonth(historical_from_date) = YearMonth(historical_to_date) =>
        /\ pc = "relabel" =>
              \A i \in 1..Len(rides) :
                 /\ historical_from_date <= rides[i].ts
                 /\ rides[i].ts < historical_to_date
        /\ pc = "fetched" =>
              \A i \in 1..Len(rides) : rides[i].ts < InstantOf(to_date)

\* C7: when two monthly tables are loaded, rides_from holds exactly the rows
\* of the first month's table with timestamp >= historical_from and rides_to
\* exactly the rows of the second month's table with timestamp <
\* historical_to, each as often as the archive holds it.
C7_TwoMonthFilters ==
    (Len(calls) = 2 /\ error = "none") =>
        \A r \in RowsOf(archive) \cup RowsOf(rides_from) \cup RowsOf(rides_to) :
            /\ Occurrences(rides_from, r) =
                  IF /\ YearMonth(r.ts) = YearMonth(historical_from_date)
                     /\ r.ts >= historical_from_date
                  THEN Occurrences(archive, r) ELSE 0
            /\ Occurrences(rides_to, r) =
                  IF /\ YearMonth(r.ts) = YearMonth(historical_to_date)
                     /\ r.ts < historical_to_date
                  THEN Occurrences(archive, r) ELSE 0

\* the notebook's window, February to March: a row kept from each month
C7_Witness ==
    /\ Len(calls) = 2
    /\ error = "none"
    /\ calls = <<<<2024, 2>>, <<2024, 3>>>>
    /\ Len(rides_from) = 1
    /\ Len(rides_to) = 1
    /\ Len(archive) = 2

Consecutive(a, b) ==
    \/ b[1] = a[1] /\ b[2] = a[2] + 1
    \/ b[1] = a[1] + 1 /\ a[2] = 12 /\ b[2] = 1

\* C8: the loader is called exactly once when both historical bounds fall in
\* the same month of the same year, otherwise exactly twice, for the two
\* consecutive (year, month) pairs of the bounds.
C8_OneCallPerSpannedMonth ==
    Combined =>
        IF YearMonth(historical_from_date) = YearMonth(historical_to_date)
        THEN calls = <<YearMonth(historical_from_date)>>
        ELSE /\ calls = <<YearMonth(historical_from_date),
                          YearMonth(historical_to_date)>>
             /\ Consecutive(calls[1], calls[2])

\* C9 as stated: for every positive number of weeks the bounds are moved
\* earlier by exactly weeks*7 days.
C9_ShiftByAnyWeeks ==
    \A w \in 1..MaxWeeks :
        Shifted =>
            /\ historical_from_date =
                  InstantOf(from_date) - w * 7 * SecondsPerDay
            /\ historical_to_date =
                  InstantOf(to_date) - w * 7 * SecondsPerDay

\* C9 as amended: both bounds are moved earlier by exactly 52*7 = 364 days,
\* the length of the window is unchanged, and (2025-03-04, 2025-04-01) maps
\* to (2024-03-05, 2024-04-02).
C9_ShiftBy52Weeks ==
    Shifted =>
        /\ historical_from_date = InstantOf(from_date) - 364 * SecondsPerDay
        /\ historical_to_date = InstantOf(to_date) - 364 * SecondsPerDay
        /\ historical_to_date - historical_from_date =
              InstantOf(to_date) - InstantOf(from_date)
        /\ (/\ InstantOf(from_date) = DateTime(2025, 3, 4, 0, 0, 0)
            /\ InstantOf(to_date) = DateTime(2025, 4, 1, 0, 0, 0))
           => /\ historical_from_date = DateTime(2024, 3, 5, 0, 0, 0)
              /\ historical_to_date = DateTime(2024, 4, 2, 0, 0, 0)

\* the window ("2025-03-04", "2025-04-01") has been shifted
C9_Witness ==
    /\ pc = "load_from"
    /\ from_date = Str(<<2025, 3, 4, 0, 0, 0>>)
    /\ to_date = Str(<<2025, 4, 1, 0, 0, 0>>)
    /\ historical_from_date = DateTime(2024, 3, 5, 0, 0, 0)

\* C10: whenever from_date >= to_date the call raises ValueError: it issues
\* no loader call and returns no table.
C10_RaisesOnUnorderedBounds ==
    (/\ IsDate(from_date)
     /\ IsDate(to_date)
     /\ InstantOf(from_date) >= InstantOf(to_date)
     /\ pc # "start")
    => /\ pc = "raised"
       /\ error = "ValueError"
       /\ calls = <<>>
       /\ rides = <<>>

\* equal bounds have been refused
C10_Witness ==
    /\ pc = "raised"
    /\ error = "ValueError"
    /\ IsDate(from_date)
    /\ IsDate(to_date)
    /\ InstantOf(from_date) = InstantOf(to_date)

\* C11: when from_date or to_date is a string that spells no date, or is
\* neither a string nor a datetime, the call raises ValueError, the kind the
\* ordering check raises, and returns nothing.
C11_RaisesOnUnparsableOrNonDate ==
    ((~IsDate(from_date) \/ ~IsDate(to_date)) /\ pc # "start")
    => /\ pc = "raised"
       /\ error = "ValueError"
       /\ calls = <<>>
       /\ rides = <<>>

\* the string "2025-02-30" has been refused
C11_Witness ==
    /\ pc = "raised"
    /\ error = "ValueError"
    /\ from_date = Str(<<2025, 2, 30, 0, 0, 0>>)
    /\ ~IsDate(from_date)

\* C12: the relabelling step adds exactly 52*7 days to the timestamp of every
\* row and changes nothing else: no row is added or dropped and every row
\* keeps its location.
C12_RelabelAddsWeeksOnly ==
    [][pc = "relabel" =>
          /\ Len(rides') = Len(rides)
          /\ \A i \in 1..Len(rides) :
                /\ rides'[i].ts = rides[i].ts + 52 * 7 * SecondsPerDay
                /\ rides'[i].loc = rides[i].loc
                /\ rides'[i].n = rides[i].n]_vars

\* the ride of 2024-02-06 06:08:40 has been relabelled 2025-02-04 06:08:40
C12_Witness ==
    /\ pc = "sort"
    /\ Len(rides) = 2
    /\ rides[1].ts = DateTime(2025, 2, 4, 6, 8, 40)
    /\ archive[1].ts = DateTime(2024, 2, 6, 6, 8, 40)

\* C13: the table fetch_batch_raw_data returns is sorted ascending by
\* (pickup_location_id, pickup_datetime).
C13_ReturnedTableSorted ==
    pc = "fetched" =>
        \A i \in 1..(Len(rides) - 1) :
            \/ rides[i].loc < rides[i + 1].loc
            \/ rides[i].loc = rides[i + 1].loc /\ rides[i].ts <= rides[i + 1].ts

\* two monthly tables, the loader's rows in descending order of location
C13_Witness ==
    /\ pc = "fetched"
    /\ Len(calls) = 2
    /\ Len(rides) = 2
    /\ archive[1].loc > archive[2].loc
    /\ archive[1].ts < archive[2].ts

\* C14: the first loader call is the one for the month of historical_from, the
\* second the one for the month of historical_to; the second is issued only
\* once the first has returned and its table has been filtered; the combined
\* table is the first month's rows followed by the second month's rows.
C14_CallsAndConcatInOrder ==
    /\ [](/\ Len(calls) <= 2
          /\ Len(calls) >= 1 => calls[1] = YearMonth(historical_from_date)
          /\ Len(calls) = 2 => calls[2] = YearMonth(historical_to_date)
          /\ (pc = "relabel" /\ Len(calls) = 2) =>
                /\ Len(rides) = Len(rides_from) + Len(rides_to)
                /\ \A i \in 1..Len(rides_from) : rides[i] = rides_from[i]
                /\ \A i \in 1..Len(rides_to) :
                      rides[Len(rides_from) + i] = rides_to[i])
    /\ [][Len(calls') = 2 =>
             \/ Len(calls) = 2
             \/ /\ Len(calls) = 1
                /\ pc = "branch"
                /\ error = "none"]_vars

\* a row from each month, the first month's row first
C14_Witness ==
    /\ pc = "relabel"
    /\ calls = <<<<2024, 2>>, <<2024, 3>>>>
    /\ Len(rides) = 2
    /\ YearMonth(rides[1].ts) = <<2024, 2>>
    /\ YearMonth(rides[2].ts) = <<2024, 3>>

\* C15: the historical bounds moved forward by 52 weeks are from_date and
\* to_date again, and the relabelling step takes a row whose timestamp lies in
\* [historical_from, historical_to) to a timestamp in [from_date, to_date), as
\* far from from_date as it was from historical_from.
C15_ShiftRoundTrip ==
    /\ [](Shifted =>
            /\ historical_from_date + 52 * 7 * SecondsPerDay
                  = InstantOf(from_date)
            /\ historical_to_date + 52 * 7 * SecondsPerDay
                  = InstantOf(to_date))
    /\ [][pc = "relabel" =>
             \A i \in 1..Len(rides) :
                (/\ historical_from_date <= rides[i].ts
                 /\ rides[i].ts < historical_to_date)
                => /\ Len(rides') = Len(rides)
                   /\ InstantOf(from_date) <= rides'[i].ts
                   /\ rides'[i].ts < InstantOf(to_date)
                   /\ rides'[i].ts - InstantOf(from_date)
                         = rides[i].ts - historical_from_date]_vars

\* the ride at historical_from = 2024-03-05 has been returned at
\* from_date = "2025-03-04"
C15_Witness ==
    /\ pc = "fetched"
    /\ from_date = Str(<<2025, 3, 4, 0, 0, 0>>)
    /\ archive # <<>>
    /\ archive[1].ts = historical_from_date
    /\ rides # <<>>
    /\ rides[1].ts = DateTime(2025, 3, 4, 0, 0, 0)

-----------------------------------------------------------------------------
(* More properties of the aggregator (checked under SpecAgg)               *)

\* C16: an empty table with both fields aggregates to the empty series,
\* without an error.
C16_EmptyInputEmptySeries ==
    (rides = <<>> /\ columns = RideColumns /\ pc # "fetched")
    => /\ pc = "transformed"
       /\ ts_data = <<>>
       /\ error = "none"

\* the empty table has been aggregated
C16_Witness ==
    /\ pc = "transformed"
    /\ rides = <<>>
    /\ columns = RideColumns
    /\ ts_data = <<>>

\* C17: the aggregator raises exactly when the table lacks the timestamp or
\* the location field, and then raises ValueError; on every other table it
\* returns a series.
C17_RaisesIffFieldMissing ==
    pc # "fetched" =>
        IF "pickup_datetime" \in columns /\ "pickup_location_id" \in columns
        THEN pc = "transformed" /\ error = "none"
        ELSE pc = "raised" /\ error = "ValueError" /\ ts_data = <<>>

\* a table without the location field has been refused
C17_Witness ==
    /\ pc = "raised"
    /\ error = "ValueError"
    /\ columns = {"pickup_datetime"}
    /\ rides # <<>>

\* the events of the example of section 8, in any order
ExampleEvents ==
    { Row(DateTime(2025, 2, 4, 6, 8, 40), 3, 1),
      Row(DateTime(2025, 2, 4, 6, 47, 0), 3, 1),
      Row(DateTime(2025, 2, 4, 7, 15, 0), 5, 1) }

SeriesRow(h, l, k) ==
    [pickup_hour |-> h, pickup_location_id |-> l, rides |-> k]

\* C18: the three events of the example aggregate to the four rows
\* (06:00, 3, 2), (07:00, 3, 0), (06:00, 5, 0), (07:00, 5, 1), in this order,
\* the order of (location, hour).
C18_ExampleSeries ==
    (/\ pc = "transformed"
     /\ columns = RideColumns
     /\ Len(rides) = 3
     /\ RowsOf(rides) = ExampleEvents)
    => ts_data = << SeriesRow(DateTime(2025, 2, 4, 6, 0, 0), 3, 2),
                    SeriesRow(DateTime(2025, 2, 4, 7, 0, 0), 3, 0),
                    SeriesRow(DateTime(2025, 2, 4, 6, 0, 0), 5, 0),
                    SeriesRow(DateTime(2025, 2, 4, 7, 0, 0), 5, 1) >>

\* the example has been aggregated, its events given in the order of section 8
C18_Witness ==
    /\ pc = "transformed"
    /\ rides = << Row(DateTime(2025, 2, 4, 6, 8, 40), 3, 1),
                  Row(DateTime(2025, 2, 4, 6, 47, 0), 3, 1),
                  Row(DateTime(2025, 2, 4, 7, 15, 0), 5, 1) >>
    /\ Len(ts_data) = 4

\* C19: every count of the series is non-negative and is the exact number of
\* events of its bucket, however many they are.
C19_CountsExactUnbounded ==
    pc = "transformed" =>
        \A i \in 1..Len(ts_data) :
            /\ ts_data[i].rides >= 0
            /\ ts_data[i].rides =
                  EventsInBucket(rides, ts_data[i].pickup_hour,
                                 ts_data[i].pickup_location_id)

-----------------------------------------------------------------------------
(* The run as a whole (checked under Spec)                                 *)

\* C20: feature_group.insert is issued only from the position after the
\* aggregation, with no error raised and the loader called; what it is handed
\* is the whole series of the returned rides; once a step has raised, nothing
\* is written.
C20_WriteOnlyAfterCompleteRun ==
    /\ [](/\ pc = "raised" => (error # "none" /\ feature_group = <<>>)
          /\ feature_group # <<>> =>
                /\ pc = "done"
                /\ error = "none"
                /\ feature_group = <<ts_data>>
                /\ rides # <<>> =>
                      Len(ts_data) = Cardinality(HoursInRange(rides))
                                        * Cardinality(LocationsOf(rides)))
    /\ [][feature_group' # feature_group =>
             /\ pc = "transformed"
             /\ error = "none"
             /\ Len(calls) >= 1
             /\ feature_group' = <<TransformRawDataIntoTsData(rides)>>]_vars

\* a run over two months has written its series
C20_Witness ==
    /\ pc = "done"
    /\ Len(calls) = 2
    /\ Len(rides) = 2
    /\ feature_group = <<ts_data>>
    /\ Len(ts_data) > 2

\* C22: when the validation of the dates fails, ValueError is raised by the
\* first step of the call, before any loader call, any table and any write
\* to the feature store; the run ends there: the error is not caught and no
\* step follows it.
C22_ValidationRaisesAtOnce ==
    /\ []((Raises(from_date, to_date) /\ pc # "start")
            => /\ pc = "raised"
               /\ error = "ValueError"
               /\ calls = <<>>
               /\ rides_from = <<>>
               /\ feature_group = <<>>)
    /\ [][/\ (error = "none" /\ error' = "ValueError")
                => (pc = "start" /\ pc' = "raised")
          /\ pc # "raised"]_vars

\* a call whose second argument is no date has raised, over a non-empty
\* archive that no loader call has read
C22_Witness ==
    /\ pc = "raised"
    /\ error = "ValueError"
    /\ to_date = Other
    /\ archive # <<>>
    /\ calls = <<>>
    /\ feature_group = <<>>

\* C28: for every valid window, each event of the archive with a timestamp
\* in [historical_from, historical_to) is in the returned table, relabelled,
\* exactly as often as the archive holds it.
C28_EveryWindowEventReturnedOnce ==
    pc = "fetched" =>
        \A r \in RowsOf(archive) :
            (historical_from_date <= r.ts /\ r.ts < historical_to_date)
            => Occurrences(rides,
                           Row(r.ts + TimedeltaWeeks(WeeksOffset), r.loc, r.n))
                  = Occurrences(archive, r)

-----------------------------------------------------------------------------
(* The predictions notebook (checked under SpecPred)                       *)

\* C23: a call of fetch_next_hour_predictions that returns hands back exactly
\* the rows the feature store holds at the time of the call whose pickup_hour
\* is the start of the hour after the clock's, rows written since an earlier
\* read included.
C23_NextHourRowsOfStoreAtCall ==
    (cell = "fetch_next_hour_predictions" /\ raised = "none")
    => /\ predictions.kind = "table"
       /\ predictions.rows = RowsAtHour(store, NextHour(now))

\* C24: the hour current_hour is set to is a whole hour, not before the
\* clock's reading and less than an hour after it, and the reading itself
\* when that is on an hour boundary.
C24_CeiledToTheHour ==
    cell = "current_hour" =>
        LET h == current_hour.t
        IN  /\ h % SecondsPerHour = 0
            /\ now.t < h \/ (now.t = h /\ now.us = 0)
            /\ h - now.t < SecondsPerHour
               \/ (h - now.t = SecondsPerHour /\ now.us > 0)
            /\ (now.t % SecondsPerHour = 0 /\ now.us = 0) => h = now.t

\* C25: a call of fetch_predictions that returns hands back the rows of the
\* store whose pickup_hour is the clock's reading at the time of the call,
\* ceiled to the hour.
C25_FiltersOnHourOfTheCall ==
    (cell = "fetch_predictions" /\ raised = "none")
    => returned = RowsAtHour(store, CeilHour(now))

\* C26: at every reading of the clock, the hour get_current_utc_hour_ceiled
\* gives is the hour (now + 1 hour) with minute, second and microsecond reset.
C26_TwoTargetHoursAgree ==
    cell = "current_hour" => current_hour.t = NextHour(now)

\* C27: an execution of the try/except cell in which the connection or the
\* read failed leaves no exception and leaves predictions bound to None.
C27_FailedExecutionLeavesNone ==
    cell = "try_except_caught"
    => /\ raised = "none"
       /\ predictions.kind = "None"
       /\ predictions.rows = {}

-----------------------------------------------------------------------------
(* The notebook's own window (checked under SpecWindow)                    *)

\* the months of the first and of the last instant of the historical window
FirstMonth == YearMonth(historical_from_date)
LastMonth == YearMonth(historical_to_date - 1)

\* C29: for the window the notebook asks for, from_date < to_date and the
\* validation never raises; the historical window touches one month or two
\* consecutive months, and once the loads are done every month it touches has
\* been loaded, in at most two calls.
C29_NotebookWindowCovered ==
    /\ InstantOf(to_date) = FloorHour(now.t)
    /\ InstantOf(from_date) < InstantOf(to_date)
    /\ error # "ValueError"
    /\ Shifted =>
          /\ FirstMonth = LastMonth \/ Consecutive(FirstMonth, LastMonth)
          /\ Len(calls) <= 2
          /\ Combined =>
                \A ym \in {FirstMonth, LastMonth} :
                    \E i \in 1..Len(calls) : calls[i] = ym

\* run at 2026-02-27 23:20:15: the historical window 2025-01-31 23:00 ..
\* 2025-02-28 23:00 has been fetched with a call for January and one for
\* February
C29_Witness ==
    /\ pc = "fetched"
    /\ now.t = DateTime(2026, 2, 27, 23, 20, 15)
    /\ historical_from_date = DateTime(2025, 1, 31, 23, 0, 0)
    /\ historical_to_date = DateTime(2025, 2, 28, 23, 0, 0)
    /\ calls = <<<<2025, 1>>, <<2025, 2>>>>

-----------------------------------------------------------------------------
(* Runs of the aggregation compared (checked under SpecRuns)               *)

====
